---- MODULE Spec2Model ----
(***************************************************************************)
(* Model of the AWSRAG pipeline: the ingestion handler                     *)
(* (src/processor/processor.py) and the query handler                      *)
(* (src/query/query.py), together with the two collaborators whose state   *)
(* the handlers share: the object store (S3) and the PostgreSQL store      *)
(* (tables embeddings and processed_files) reached through psycopg2.       *)
(*                                                                         *)
(* psycopg2 connections are not in autocommit mode: the first execute()    *)
(* opens a transaction that lasts until commit(); a connection that goes   *)
(* away without commit() is rolled back.  PostgreSQL runs the statements   *)
(* at its default isolation level READ COMMITTED: every statement reads    *)
(* the rows committed when it starts, a DELETE waits for a row another     *)
(* open transaction has deleted, and INSERT .. ON CONFLICT waits for an    *)
(* uncommitted row with the same key.                                      *)
(***************************************************************************)
EXTENDS Integers, Sequences, FiniteSets, TLC

VARIABLES
    s3,               \* object store: key -> bytes of the object
    puts,             \* number of uploads so far
    invoked,          \* number of ingestion invocations so far
    embeddings,       \* committed rows of table embeddings
    processed_files,  \* committed rows of table processed_files: key -> row or NoRow
    inv,              \* per execution environment: number of its current invocation
    pc,               \* per invocation: position in lambda_handler
    key,              \* per invocation: event['Records'][0]['s3']['object']['key']
    file_hash,        \* per invocation: md5 of the bytes read at line 106
    chunks,           \* per invocation: chunk_text(text)
    embeddings_data,  \* per invocation: tuples prepared for the batch insert
    txSnap,           \* per invocation: rows a waiting DELETE has selected
    txDel,            \* per invocation: rows deleted in the open transaction
    txIns,            \* per invocation: rows inserted in the open transaction
    txUps,            \* per invocation: processed_files row written in the open transaction
    ops,              \* per invocation: external calls made, in order
    result,           \* per invocation: value returned or exception raised
    qpc,              \* query handler: position in lambda_handler
    event,            \* query handler: the request
    question,         \* query handler: body.get('question')
    top_k,            \* query handler: body.get('top_k', 5)
    query_embedding,  \* query handler: embedding of the question
    context_chunks,   \* query handler: rows returned by similarity_search
    prompt,           \* query handler: context and question sent to the model
    qops,             \* query handler: collaborator calls made, in order
    exception,        \* query handler: the exception caught at line 180, if any
    response          \* query handler: response returned

ivars == <<s3, puts, invoked, embeddings, processed_files, inv, pc, key, file_hash,
           chunks, embeddings_data, txSnap, txDel, txIns, txUps, ops, result>>
qvars == <<qpc, event, question, top_k, query_embedding, context_chunks, prompt,
           qops, exception, response>>
vars == <<s3, puts, invoked, embeddings, processed_files, inv, pc, key, file_hash,
          chunks, embeddings_data, txSnap, txDel, txIns, txUps, ops, result,
          qpc, event, question, top_k, query_embedding, context_chunks, prompt,
          qops, exception, response>>

(***************************************************************************)
(* Bounds of the model.                                                    *)
(***************************************************************************)
MaxTextLen == 3          \* length of the objects the chunker is run on
MaxInvocations == 2      \* ingestion invocations
MaxPuts == 1             \* uploads that overwrite an object
ModelChunkSize == 3      \* chunk_size, scaled down from 1000
ModelChunkOverlap == 1   \* chunk_overlap, scaled down from 200

\* the Lambda execution environments of the ingestion function: each runs one
\* invocation at a time, and two invocations overlap when both are busy
Invocations == {1, 2}

None == [t |-> "null"]
NoRow == [present |-> FALSE]
NoException == [t |-> "none"]

(***************************************************************************)
(* Sequence helpers.                                                       *)
(***************************************************************************)
RECURSIVE Concat(_)
Concat(ss) == IF ss = <<>> THEN <<>> ELSE Head(ss) \o Concat(Tail(ss))

RECURSIVE Count(_, _)
Count(s, x) ==
    IF s = <<>> THEN 0 ELSE (IF Head(s) = x THEN 1 ELSE 0) + Count(Tail(s), x)

Range(s) == {s[i] : i \in DOMAIN s}

(***************************************************************************)
(* File names are sequences of characters.                                 *)
(***************************************************************************)
KeyTxt == <<"a", ".", "t", "x", "t">>
KeyTXT == <<"b", ".", "T", "X", "T">>
KeyXlsx == <<"r", ".", "x", "l", "s", "x">>
Keys == {KeyTxt, KeyTXT, KeyXlsx}

\* str.lower() on the characters file names use
LowerChar(c) ==
    CASE c = "T" -> "t"
      [] c = "X" -> "x"
      [] c = "P" -> "p"
      [] c = "D" -> "d"
      [] c = "F" -> "f"
      [] c = "O" -> "o"
      [] c = "C" -> "c"
      [] OTHER -> c

Lower(s) == [i \in DOMAIN s |-> LowerChar(s[i])]

\* str.endswith(suffix)
EndsWith(s, suffix) ==
    /\ Len(s) >= Len(suffix)
    /\ SubSeq(s, Len(s) - Len(suffix) + 1, Len(s)) = suffix

(***************************************************************************)
(* Object contents are sequences of bytes.                                 *)
(***************************************************************************)
BytesA == <<97, 98, 99, 100>>
BytesB == <<98, 97>>
BytesEmpty == <<>>
Contents == {BytesA, BytesB, BytesEmpty}

\* hashlib.md5(file_bytes).hexdigest(): a digest of all the bytes, here a
\* polynomial digest that is collision free on Contents
RECURSIVE Digest(_, _)
Digest(bytes, acc) ==
    IF bytes = <<>> THEN acc
    ELSE Digest(Tail(bytes), (acc * 31 + Head(bytes)) % 65536)

md5(bytes) == Digest(bytes, 7)

\* bytes.decode('utf-8') of one byte of the ASCII range
DecodeByte(b) ==
    CASE b = 97 -> "a"
      [] b = 98 -> "b"
      [] b = 99 -> "c"
      [] b = 100 -> "d"
      [] b = 32 -> " "
      [] b = 10 -> "\n"
      [] b = 46 -> "."
      [] OTHER -> "?"

Decode(bytes) == [i \in DOMAIN bytes |-> DecodeByte(bytes[i])]

\* extract_pdf / extract_docx: the text of every page (paragraph) followed by
\* a newline; the blob is read as one page (paragraph)
extract_pdf(bytes) == Decode(bytes) \o <<"\n">>
extract_docx(bytes) == Decode(bytes) \o <<"\n">>

\* extract_text: dispatch on the lower-cased file name
extract_text(bytes, filename) ==
    LET file_lower == Lower(filename) IN
    IF EndsWith(file_lower, <<".", "p", "d", "f">>)
        THEN [ok |-> TRUE, text |-> extract_pdf(bytes)]
    ELSE IF EndsWith(file_lower, <<".", "d", "o", "c", "x">>)
        THEN [ok |-> TRUE, text |-> extract_docx(bytes)]
    ELSE IF EndsWith(file_lower, <<".", "t", "x", "t">>)
        THEN [ok |-> TRUE, text |-> Decode(bytes)]
    ELSE [ok |-> FALSE, error |-> "ValueError: Unsupported file type"]

(***************************************************************************)
(* chunk_text: RecursiveCharacterTextSplitter(chunk_size, chunk_overlap,   *)
(* separators=["\n\n", "\n", ". ", " ", ""]).split_text(text), with the    *)
(* splitter's defaults keep_separator=True and strip_whitespace=True.      *)
(***************************************************************************)
Separators == << <<"\n", "\n">>, <<"\n">>, <<".", " ">>, <<" ">>, <<>> >>

IsSpace(c) == c \in {" ", "\n"}

\* str.strip()
RECURSIVE LStrip(_)
LStrip(t) == IF t # <<>> /\ IsSpace(Head(t)) THEN LStrip(Tail(t)) ELSE t

RECURSIVE RStrip(_)
RStrip(t) ==
    IF t # <<>> /\ IsSpace(t[Len(t)]) THEN RStrip(SubSeq(t, 1, Len(t) - 1)) ELSE t

Strip(t) == RStrip(LStrip(t))

\* re.search(re.escape(sep), text) for a non-empty separator
Occurs(sep, text) ==
    \E i \in 1..(Len(text) - Len(sep) + 1) : SubSeq(text, i, i + Len(sep) - 1) = sep

FirstAt(sep, text) ==
    CHOOSE i \in 1..(Len(text) - Len(sep) + 1) :
        /\ SubSeq(text, i, i + Len(sep) - 1) = sep
        /\ \A j \in 1..(i - 1) : SubSeq(text, j, j + Len(sep) - 1) # sep

\* the pieces of text between the leftmost non-overlapping matches of sep
RECURSIVE Pieces(_, _)
Pieces(text, sep) ==
    IF ~Occurs(sep, text) THEN <<text>>
    ELSE LET i == FirstAt(sep, text) IN
         <<SubSeq(text, 1, i - 1)>>
             \o Pieces(SubSeq(text, i + Len(sep), Len(text)), sep)

\* _split_text_with_regex(text, separator, keep_separator=True): every piece
\* after the first carries the separator in front; empty strings are dropped
SplitWithSeparator(text, sep) ==
    LET ps == Pieces(text, sep)
        all == IF sep = <<>>
                   THEN [i \in 1..Len(text) |-> <<text[i]>>]
                   ELSE [i \in 1..Len(ps) |-> IF i = 1 THEN ps[1] ELSE sep \o ps[i]]
    IN SelectSeq(all, LAMBDA x : x # <<>>)

\* the while loop of _merge_splits: drop leading splits until the overlap fits
RECURSIVE PopOverlap(_, _, _)
PopOverlap(cur, total, dlen) ==
    IF total > ModelChunkOverlap \/ (total + dlen > ModelChunkSize /\ total > 0)
        THEN PopOverlap(Tail(cur), total - Len(Head(cur)), dlen)
        ELSE <<cur, total>>

\* variant: strip_whitespace=False
JoinUnstripped(cur) ==
    LET t == Concat(cur) IN IF t = <<>> THEN <<>> ELSE <<t>>

\* _join_docs with separator "": the joined text stripped, None when empty
JoinDocs(cur) ==
    LET t == Strip(Concat(cur)) IN IF t = <<>> THEN <<>> ELSE <<t>>

\* _merge_splits(splits, "")
RECURSIVE MergeSplits(_, _, _)
MergeSplits(splits, cur, total) ==
    IF splits = <<>> THEN JoinDocs(cur)
    ELSE LET d == Head(splits) IN
         IF total + Len(d) > ModelChunkSize /\ cur # <<>>
             THEN LET popped == PopOverlap(cur, total, Len(d)) IN
                  JoinDocs(cur)
                      \o MergeSplits(Tail(splits), Append(popped[1], d),
                                     popped[2] + Len(d))
             ELSE MergeSplits(Tail(splits), Append(cur, d), total + Len(d))

\* index of the separator _split_text picks: the first that is "" or occurs
\* in the text
RECURSIVE PickSeparator(_, _, _)
PickSeparator(text, seps, i) ==
    IF i >= Len(seps) THEN Len(seps)
    ELSE IF seps[i] = <<>> \/ Occurs(seps[i], text) THEN i
    ELSE PickSeparator(text, seps, i + 1)

\* _split_text(text, separators)
RECURSIVE SplitText(_, _)
RECURSIVE SplitLoop(_, _, _)
SplitLoop(splits, good, new_separators) ==
    IF splits = <<>>
        THEN (IF good # <<>> THEN MergeSplits(good, <<>>, 0) ELSE <<>>)
    ELSE LET s == Head(splits) IN
         IF Len(s) < ModelChunkSize
             THEN SplitLoop(Tail(splits), Append(good, s), new_separators)
             ELSE (IF good # <<>> THEN MergeSplits(good, <<>>, 0) ELSE <<>>)
                  \o (IF new_separators = <<>>
                          THEN <<s>>
                          ELSE SplitText(s, new_separators))
                  \o SplitLoop(Tail(splits), <<>>, new_separators)

SplitText(text, seps) ==
    LET i == PickSeparator(text, seps, 1)
        separator == seps[i]
        new_separators ==
            IF separator = <<>> THEN <<>> ELSE SubSeq(seps, i + 1, Len(seps))
    IN SplitLoop(SplitWithSeparator(text, separator), <<>>, new_separators)

chunk_text(text) == SplitText(text, Separators)

(***************************************************************************)
(* get_embedding: the embedding model is a black box text -> vector.  The  *)
(* model's vectors are the four unit vectors of the plane, for which the   *)
(* cosine distance is 1 minus the dot product.                             *)
(***************************************************************************)
get_embedding(text) ==
    IF text = <<>> THEN <<0, -1>>
    ELSE CASE Head(text) = "a" -> <<1, 0>>
           [] Head(text) = "b" -> <<0, 1>>
           [] Head(text) = "c" -> <<-1, 0>>
           [] OTHER -> <<0, -1>>

(***************************************************************************)
(* The ingestion handler, processor.lambda_handler.  Every invocation is   *)
(* its own Lambda execution with its own connection; invocations overlap   *)
(* freely.  A row of table embeddings is the tuple the handler inserts     *)
(* plus the invocation that inserted it, which stands for the row's        *)
(* identity (two inserts of equal tuples are two rows).                    *)
(***************************************************************************)
Active == {"received", "hashed", "connected", "checked", "embedding",
           "deleting", "deleted", "inserted", "upserted"}
Terminal == {"skipped", "done", "failed"}

NoResult == [kind |-> "none"]

Log(p, calls) == [ops EXCEPT ![p] = @ \o calls]

\* SELECT file_hash FROM processed_files WHERE filename = %s; fetchone()
SelectFileHash(k) == processed_files[k]

\* variant: the fetched tuple itself is compared with the hash, which never
\* matches
TupleComparedWithHash(row, h) == FALSE

\* variant: any stored row of the key short-circuits, whatever its hash
AnyRowShortCircuits(row, h) == row.present

\* if result and result[0] == file_hash
AlreadyProcessed(row, h) == row.present /\ row.file_hash = h

\* variant: the tuple for chunk i takes the text of the chunk at the mirrored
\* position
MirroredTuple(p, i) ==
    [chunk_text |-> chunks[p][Len(chunks[p]) - i],
     embedding |-> get_embedding(chunks[p][Len(chunks[p]) - i]),
     filename |-> key[p],
     chunk_index |-> i,
     file_hash |-> file_hash[p]]

\* the tuple appended to embeddings_data for chunk i
EmbeddingTuple(p, i) ==
    [chunk_text |-> chunks[p][i + 1],
     embedding |-> get_embedding(chunks[p][i + 1]),
     filename |-> key[p],
     chunk_index |-> i,
     file_hash |-> file_hash[p]]

\* the rows the batch insert adds
InsertedRows(p) ==
    {[chunk_text |-> t.chunk_text, embedding |-> t.embedding, filename |-> t.filename,
      chunk_index |-> t.chunk_index, file_hash |-> t.file_hash, inv |-> inv[p]]
        : t \in Range(embeddings_data[p])}

\* variant: a DELETE without the WHERE clause
DeleteEveryRow(k) == embeddings

\* DELETE FROM embeddings WHERE filename = %s: the committed rows the
\* statement selects
DeleteTargets(k) == {r \in embeddings : r.filename = k}

\* rows on which another open transaction holds a row lock
LockedByOther(p) == UNION {txDel[q] : q \in Invocations \ {p}}

\* the processed_files row the upsert writes
UpsertRow(p) ==
    [present |-> TRUE, file_hash |-> file_hash[p], chunk_count |-> Len(chunks[p])]

\* another open transaction has written the processed_files row of key k
UpsertBlocked(p, k) ==
    \E q \in Invocations \ {p} : txUps[q].present /\ key[q] = k

\* conn.commit(): the transaction's writes become visible together
CommittedEmbeddings(p) == (embeddings \ txDel[p]) \cup txIns[p]
CommittedFiles(p) ==
    IF txUps[p].present THEN [processed_files EXCEPT ![key[p]] = txUps[p]]
    ELSE processed_files

\* variant: an autocommit connection, on which the statements executed before
\* the failure stay
AutocommitEmbeddings(p) == (embeddings \ txDel[p]) \cup txIns[p]

\* the exception leaves lambda_handler with the connection never committed:
\* the server rolls the transaction back
RolledBackEmbeddings(p) == embeddings
RolledBackFiles(p) == processed_files

\* variant: the connection, and with it the transaction and its locks, is
\* left open
ConnectionLeftOpen(p) == UNCHANGED <<txSnap, txDel, txIns, txUps>>

EndTransaction(p) ==
    /\ txSnap' = [txSnap EXCEPT ![p] = {}]
    /\ txDel' = [txDel EXCEPT ![p] = {}]
    /\ txIns' = [txIns EXCEPT ![p] = {}]
    /\ txUps' = [txUps EXCEPT ![p] = NoRow]

\* the call that is next at each position, which is the one that can raise
NextCall(p) ==
    CASE pc[p] = "received" -> "s3.get_object"
      [] pc[p] = "hashed" -> "connect"
      [] pc[p] = "connected" -> "select"
      [] pc[p] = "checked" -> "s3.get_object"
      [] pc[p] = "embedding" ->
            IF Len(embeddings_data[p]) < Len(chunks[p]) THEN "embed" ELSE "delete"
      [] pc[p] = "deleting" -> "delete"
      [] pc[p] = "deleted" -> "insert"
      [] pc[p] = "inserted" -> "upsert"
      [] pc[p] = "upserted" -> "commit"
      [] OTHER -> "none"

\* an upload overwrites the object under key k
PutObject(k, c) ==
    /\ puts < MaxPuts
    /\ s3[k] # c
    /\ s3' = [s3 EXCEPT ![k] = c]
    /\ puts' = puts + 1
    /\ UNCHANGED <<invoked, inv, embeddings, processed_files, pc, key, file_hash, chunks,
                   embeddings_data, txSnap, txDel, txIns, txUps, ops, result>>
    /\ UNCHANGED qvars

\* lines 96-97: an event naming key k starts an invocation, in the first
\* execution environment that is free; the handler's locals are fresh
Invoke(p, k) ==
    /\ invoked < MaxInvocations
    /\ pc[p] \notin Active
    /\ \A q \in Invocations : q < p => pc[q] \in Active
    /\ invoked' = invoked + 1
    /\ inv' = [inv EXCEPT ![p] = invoked + 1]
    /\ pc' = [pc EXCEPT ![p] = "received"]
    /\ key' = [key EXCEPT ![p] = k]
    /\ file_hash' = [file_hash EXCEPT ![p] = -1]
    /\ chunks' = [chunks EXCEPT ![p] = <<>>]
    /\ embeddings_data' = [embeddings_data EXCEPT ![p] = <<>>]
    /\ ops' = [ops EXCEPT ![p] = <<>>]
    /\ result' = [result EXCEPT ![p] = NoResult]
    /\ UNCHANGED <<s3, puts, embeddings, processed_files, txSnap, txDel, txIns, txUps>>
    /\ UNCHANGED qvars

\* lines 102-107: the object is fetched (the body of the first response is
\* never read), fetched again, read and hashed
Fetch(p) ==
    /\ pc[p] = "received"
    /\ file_hash' = [file_hash EXCEPT ![p] = md5(s3[key[p]])]
    /\ ops' = Log(p, <<"s3.get_object", "s3.get_object">>)
    /\ pc' = [pc EXCEPT ![p] = "hashed"]
    /\ UNCHANGED <<s3, puts, invoked, inv, embeddings, processed_files, key, chunks,
                   embeddings_data, txSnap, txDel, txIns, txUps, result>>
    /\ UNCHANGED qvars

\* lines 110-111
Connect(p) ==
    /\ pc[p] = "hashed"
    /\ ops' = Log(p, <<"connect">>)
    /\ pc' = [pc EXCEPT ![p] = "connected"]
    /\ UNCHANGED <<s3, puts, invoked, inv, embeddings, processed_files, key, file_hash, chunks,
                   embeddings_data, txSnap, txDel, txIns, txUps, result>>
    /\ UNCHANGED qvars

\* lines 114-127: the hash lookup and the short circuit
Lookup(p) ==
    /\ pc[p] = "connected"
    /\ IF AlreadyProcessed(SelectFileHash(key[p]), file_hash[p])
           THEN /\ ops' = Log(p, <<"select", "close">>)
                /\ pc' = [pc EXCEPT ![p] = "skipped"]
                /\ result' = [result EXCEPT ![p] =
                       [kind |-> "return", statusCode |-> 200,
                        body |-> "File already processed"]]
           ELSE /\ ops' = Log(p, <<"select">>)
                /\ pc' = [pc EXCEPT ![p] = "checked"]
                /\ UNCHANGED result
    /\ UNCHANGED <<s3, puts, invoked, inv, embeddings, processed_files, key, file_hash, chunks,
                   embeddings_data, txSnap, txDel, txIns, txUps>>
    /\ UNCHANGED qvars

\* lines 131-139: the object is fetched a third time, its text extracted and
\* chunked; extract_text raises for an unsupported file name
Extract(p) ==
    /\ pc[p] = "checked"
    /\ LET r == extract_text(s3[key[p]], key[p]) IN
       IF r.ok
           THEN /\ chunks' = [chunks EXCEPT ![p] = chunk_text(r.text)]
                /\ ops' = Log(p, <<"s3.get_object", "extract_text", "chunk_text">>)
                /\ pc' = [pc EXCEPT ![p] = "embedding"]
                /\ UNCHANGED result
           ELSE /\ ops' = Log(p, <<"s3.get_object", "extract_text">>)
                /\ pc' = [pc EXCEPT ![p] = "failed"]
                /\ result' = [result EXCEPT ![p] = [kind |-> "raise", error |-> r.error]]
                /\ UNCHANGED chunks
    /\ UNCHANGED <<s3, puts, invoked, inv, embeddings, processed_files, key, file_hash,
                   embeddings_data, txSnap, txDel, txIns, txUps>>
    /\ UNCHANGED qvars

\* lines 145-158: one iteration of the loop over enumerate(chunks)
Embed(p) ==
    /\ pc[p] = "embedding"
    /\ Len(embeddings_data[p]) < Len(chunks[p])
    /\ embeddings_data' = [embeddings_data EXCEPT ![p] =
           Append(@, EmbeddingTuple(p, Len(@)))]
    /\ ops' = Log(p, <<"embed">>)
    /\ UNCHANGED <<s3, puts, invoked, inv, embeddings, processed_files, pc, key, file_hash, chunks,
                   txSnap, txDel, txIns, txUps, result>>
    /\ UNCHANGED qvars

\* line 161: the DELETE selects the committed rows of the key; it deletes them
\* at once when no other transaction has a lock on any of them, and waits
\* otherwise
Delete(p) ==
    /\ pc[p] = "embedding"
    /\ Len(embeddings_data[p]) = Len(chunks[p])
    /\ ops' = Log(p, <<"delete">>)
    /\ IF DeleteTargets(key[p]) \cap LockedByOther(p) = {}
           THEN /\ txDel' = [txDel EXCEPT ![p] = DeleteTargets(key[p])]
                /\ pc' = [pc EXCEPT ![p] = "deleted"]
                /\ UNCHANGED txSnap
           ELSE /\ txSnap' = [txSnap EXCEPT ![p] = DeleteTargets(key[p])]
                /\ pc' = [pc EXCEPT ![p] = "deleting"]
                /\ UNCHANGED txDel
    /\ UNCHANGED <<s3, puts, invoked, inv, embeddings, processed_files, key, file_hash, chunks,
                   embeddings_data, txIns, txUps, result>>
    /\ UNCHANGED qvars

\* the waiting DELETE goes on when the locks are gone: of the rows it had
\* selected it deletes those that still exist, and it does not see rows
\* committed after it started
DeleteResume(p) ==
    /\ pc[p] = "deleting"
    /\ (txSnap[p] \cap embeddings) \cap LockedByOther(p) = {}
    /\ txDel' = [txDel EXCEPT ![p] = txSnap[p] \cap embeddings]
    /\ txSnap' = [txSnap EXCEPT ![p] = {}]
    /\ pc' = [pc EXCEPT ![p] = "deleted"]
    /\ UNCHANGED <<s3, puts, invoked, inv, embeddings, processed_files, key, file_hash, chunks,
                   embeddings_data, txIns, txUps, ops, result>>
    /\ UNCHANGED qvars

\* lines 164-172: execute_values
Insert(p) ==
    /\ pc[p] = "deleted"
    /\ txIns' = [txIns EXCEPT ![p] = InsertedRows(p)]
    /\ ops' = Log(p, <<"insert">>)
    /\ pc' = [pc EXCEPT ![p] = "inserted"]
    /\ UNCHANGED <<s3, puts, invoked, inv, embeddings, processed_files, key, file_hash, chunks,
                   embeddings_data, txSnap, txDel, txUps, result>>
    /\ UNCHANGED qvars

\* lines 175-185: INSERT .. ON CONFLICT (filename) DO UPDATE, which waits while
\* another open transaction has written the row of this key
Upsert(p) ==
    /\ pc[p] = "inserted"
    /\ ~UpsertBlocked(p, key[p])
    /\ txUps' = [txUps EXCEPT ![p] = UpsertRow(p)]
    /\ ops' = Log(p, <<"upsert">>)
    /\ pc' = [pc EXCEPT ![p] = "upserted"]
    /\ UNCHANGED <<s3, puts, invoked, inv, embeddings, processed_files, key, file_hash, chunks,
                   embeddings_data, txSnap, txDel, txIns, result>>
    /\ UNCHANGED qvars

\* lines 187-200
Commit(p) ==
    /\ pc[p] = "upserted"
    /\ embeddings' = CommittedEmbeddings(p)
    /\ processed_files' = CommittedFiles(p)
    /\ EndTransaction(p)
    /\ ops' = Log(p, <<"commit", "close">>)
    /\ pc' = [pc EXCEPT ![p] = "done"]
    /\ result' = [result EXCEPT ![p] =
           [kind |-> "return", statusCode |-> 200,
            body |-> [message |-> "File processed successfully",
                      filename |-> key[p], chunks |-> Len(chunks[p])]]]
    /\ UNCHANGED <<s3, puts, invoked, inv, key, file_hash, chunks, embeddings_data>>
    /\ UNCHANGED qvars

\* lines 202-204: the call that is next (or the DELETE that is waiting) raises;
\* the handler prints and re-raises, and the open transaction is rolled back
Fail(p) ==
    /\ pc[p] \in Active
    /\ ops' = Log(p, IF pc[p] = "deleting" THEN <<>> ELSE <<NextCall(p)>>)
    /\ embeddings' = RolledBackEmbeddings(p)
    /\ processed_files' = RolledBackFiles(p)
    /\ EndTransaction(p)
    /\ pc' = [pc EXCEPT ![p] = "failed"]
    /\ result' = [result EXCEPT ![p] = [kind |-> "raise", error |-> NextCall(p)]]
    /\ UNCHANGED <<s3, puts, invoked, inv, key, file_hash, chunks, embeddings_data>>
    /\ UNCHANGED qvars

\* the rows and the processed_files row an ingestion of bytes under key k
\* by invocation n commits
VersionRows(k, bytes, n) ==
    LET cs == chunk_text(extract_text(bytes, k).text) IN
    {[chunk_text |-> cs[i], embedding |-> get_embedding(cs[i]), filename |-> k,
      chunk_index |-> i - 1, file_hash |-> md5(bytes), inv |-> n] : i \in DOMAIN cs}

VersionFile(k, bytes) ==
    [present |-> TRUE, file_hash |-> md5(bytes),
     chunk_count |-> Len(chunk_text(extract_text(bytes, k).text))]

\* at the start every object holds BytesA, and KeyTxt has been ingested
\* before (by an invocation numbered 0)
IngestInit ==
    /\ s3 = [k \in Keys |-> BytesA]
    /\ puts = 0
    /\ invoked = 0
    /\ inv = [p \in Invocations |-> 0]
    /\ embeddings = VersionRows(KeyTxt, BytesA, 0)
    /\ processed_files =
           [k \in Keys |-> IF k = KeyTxt THEN VersionFile(k, BytesA) ELSE NoRow]
    /\ pc = [p \in Invocations |-> "idle"]
    /\ key = [p \in Invocations |-> <<>>]
    /\ file_hash = [p \in Invocations |-> -1]
    /\ chunks = [p \in Invocations |-> <<>>]
    /\ embeddings_data = [p \in Invocations |-> <<>>]
    /\ txSnap = [p \in Invocations |-> {}]
    /\ txDel = [p \in Invocations |-> {}]
    /\ txIns = [p \in Invocations |-> {}]
    /\ txUps = [p \in Invocations |-> NoRow]
    /\ ops = [p \in Invocations |-> <<>>]
    /\ result = [p \in Invocations |-> NoResult]

QueryIdle ==
    /\ qpc = "idle"
    /\ event = [form |-> "none"]
    /\ question = None
    /\ top_k = None
    /\ query_embedding = <<>>
    /\ context_chunks = <<>>
    /\ prompt = [context |-> <<>>, question |-> None]
    /\ qops = <<>>
    /\ exception = NoException
    /\ response = [statusCode |-> 0]

Init == IngestInit /\ QueryIdle

Next ==
    \/ \E k \in Keys, c \in Contents : PutObject(k, c)
    \/ \E p \in Invocations, k \in Keys : Invoke(p, k)
    \/ \E p \in Invocations : Fetch(p)
    \/ \E p \in Invocations : Connect(p)
    \/ \E p \in Invocations : Lookup(p)
    \/ \E p \in Invocations : Extract(p)
    \/ \E p \in Invocations : Embed(p)
    \/ \E p \in Invocations : Delete(p)
    \/ \E p \in Invocations : DeleteResume(p)
    \/ \E p \in Invocations : Insert(p)
    \/ \E p \in Invocations : Upsert(p)
    \/ \E p \in Invocations : Commit(p)
    \/ \E p \in Invocations : Fail(p)

Spec == Init /\ [][Next]_vars

\* the next statement of invocation p, other than the extraction, that is
\* not a failure; at every position of the handler at most one is next
Proceed(p) ==
    \/ Fetch(p) \/ Connect(p) \/ Lookup(p) \/ Embed(p)
    \/ Delete(p) \/ DeleteResume(p) \/ Insert(p) \/ Upsert(p) \/ Commit(p)

\* weak fairness of Extract(p), with its enabling condition written out: the
\* action is enabled exactly when the invocation is at the extraction
ExtractReturns(p) == []<>(pc[p] # "checked") \/ []<><<Extract(p)>>_vars

\* every call of the handler that can return does return, and a statement
\* that waits for a lock goes on once the lock stays released
Fairness == \A p \in Invocations : WF_vars(Proceed(p)) /\ ExtractReturns(p)

FairSpec == Init /\ [][Next]_vars /\ Fairness

(***************************************************************************)
(* Properties of the ingestion handler.                                    *)
(***************************************************************************)
\* what a reader of the store sees for key k
Rows(k) == {r \in embeddings : r.filename = k}
Document(k) == processed_files[k]

Supported(k) ==
    \/ EndsWith(Lower(k), <<".", "p", "d", "f">>)
    \/ EndsWith(Lower(k), <<".", "d", "o", "c", "x">>)
    \/ EndsWith(Lower(k), <<".", "t", "x", "t">>)

Made(p, call) == call \in Range(ops[p])

StoreCalls == {"connect", "select", "delete", "insert", "upsert", "commit"}

Commits(p) == pc[p] = "upserted" /\ pc'[p] = "done"

\* C1: every change a reader can see in the rows or the document row of a key
\* is the commit of one ingestion, after which the reader sees exactly that
\* ingestion's version: its hash, its chunk count and exactly its chunks.
C1_AtomicVisibility ==
    [][\A k \in Keys :
         (Rows(k)' # Rows(k) \/ Document(k)' # Document(k)) =>
             \E p \in Invocations :
                 /\ Commits(p)
                 /\ key[p] = k
                 /\ Document(k)' = UpsertRow(p)
                 /\ Rows(k)' = InsertedRows(p)]_vars

\* the state of an invocation that has short-circuited
C2_SkippedState ==
    \A p \in Invocations :
        pc[p] = "skipped" =>
            /\ ops[p] = <<"s3.get_object", "s3.get_object", "connect", "select", "close">>
            /\ result[p] = [kind |-> "return", statusCode |-> 200,
                            body |-> "File already processed"]
            /\ txDel[p] = {} /\ txIns[p] = {} /\ ~txUps[p].present

\* the lookup of an invocation whose key is stored with the hash of its object
C2_LookupStep ==
    \A p \in Invocations :
        (/\ pc[p] = "connected"
         /\ pc'[p] \notin {"connected", "failed"}
         /\ Document(key[p]).present
         /\ Document(key[p]).file_hash = file_hash[p])
        => /\ pc'[p] = "skipped"
           /\ embeddings' = embeddings
           /\ processed_files' = processed_files

\* C2: an invocation that finds the stored hash of its key equal to the hash
\* of the object short-circuits: the lookup is its last step, it returns 200
\* 'File already processed', the store is unchanged, and it has made no
\* extraction, no embedding call and no store write.
C2_IdempotentIngestion == []C2_SkippedState /\ [][C2_LookupStep]_vars

\* C2 witness: a key ingested by one invocation, and a later invocation of the
\* same key and content that has short-circuited
C2_Witness ==
    \E p \in Invocations :
        /\ pc[p] = "skipped"
        /\ \E r \in Rows(key[p]) : r.inv >= 1 /\ r.inv # inv[p]

\* C3: the commit of an ingestion leaves, for its key, exactly the version of
\* one content: the chunks of that content in Chunker order, inserted by this
\* invocation, and a document row with that content's hash and chunk count.
C3_FullReplacement ==
    [][\A p \in Invocations :
         Commits(p) =>
             \E c \in Contents :
                 /\ Rows(key[p])' = VersionRows(key[p], c, inv[p])
                 /\ Document(key[p])' = VersionFile(key[p], c)]_vars

\* C4: for every key with a document row, the chunk indices stored are
\* exactly 0 .. chunk_count-1, each once.
C4_ChunkIndexContiguity ==
    \A k \in Keys :
        Document(k).present =>
            /\ \A r \in Rows(k) : r.chunk_index \in 0..(Document(k).chunk_count - 1)
            /\ \A i \in 0..(Document(k).chunk_count - 1) :
                   Cardinality({r \in Rows(k) : r.chunk_index = i}) = 1

\* a failed invocation has raised and keeps nothing pending; no invocation
\* makes a call more often than the handler's text does
C5_FailedState ==
    \A p \in Invocations :
        /\ pc[p] = "failed" =>
               /\ result[p].kind = "raise"
               /\ txSnap[p] = {} /\ txDel[p] = {} /\ txIns[p] = {} /\ ~txUps[p].present
        /\ \A call \in StoreCalls : Count(ops[p], call) <= 1
        /\ Count(ops[p], "s3.get_object") <= 3
        /\ Count(ops[p], "extract_text") <= 1
        /\ Count(ops[p], "embed") <= Len(chunks[p]) + 1
        /\ pc[p] # "failed" => Count(ops[p], "embed") <= Len(chunks[p])

\* the step in which an invocation fails leaves the store as it is, and only
\* a commit changes the store
C5_FailStep ==
    /\ \A p \in Invocations :
           (pc[p] # "failed" /\ pc'[p] = "failed") =>
               /\ embeddings' = embeddings
               /\ processed_files' = processed_files
    /\ (embeddings' # embeddings \/ processed_files' # processed_files) =>
           \E p \in Invocations : Commits(p)

\* C5: an invocation that fails changes nothing in the store, keeps nothing
\* pending, raises to the invoker, and has made every call at most once (the
\* object fetches at most three times, one embedding call per chunk at most);
\* the store changes only in the commit step of an invocation.
C5_FailureAtomicity == []C5_FailedState /\ [][C5_FailStep]_vars

\* C5 witness: an invocation that re-ingests a key with stored chunks has
\* failed in the upsert, after its DELETE and its INSERT, and the old chunks
\* are all there
C5_Witness ==
    \E p \in Invocations :
        /\ pc[p] = "failed"
        /\ result[p].error = "upsert"
        /\ Made(p, "delete") /\ Made(p, "insert")
        /\ Rows(key[p]) # {}
        /\ Document(key[p]).present
        /\ Document(key[p]).file_hash # file_hash[p]

\* C6: whatever the interleaving of ingestions of one key, the committed
\* state of the key is one that ingestions run one after the other leave: all
\* its chunks come from one ingestion (never the union of two runs), and the
\* document row's hash and chunk count are those of the chunks.
C6_SameKeySerialization ==
    \A k \in Keys :
        /\ Cardinality({r.inv : r \in Rows(k)}) <= 1
        /\ Rows(k) # {} => Document(k).present
        /\ Document(k).present =>
               /\ Cardinality(Rows(k)) = Document(k).chunk_count
               /\ \A r \in Rows(k) : r.file_hash = Document(k).file_hash

\* C7: an invocation for a key with an unsupported suffix ends failed, and
\* when it fails with the unsupported-format error it has made no embedding
\* call and no store call.
C7_UnsupportedFailsEarly ==
    \A p \in Invocations :
        (pc[p] \in Terminal /\ ~Supported(key[p])) =>
            /\ pc[p] = "failed"
            /\ result[p].error = "ValueError: Unsupported file type" =>
                   /\ ~Made(p, "embed")
                   /\ \A call \in StoreCalls : ~Made(p, call)

\* a statement of invocation p is waiting for another transaction to end
Waiting(p) ==
    \/ pc[p] = "deleting" /\ (txSnap[p] \cap embeddings) \cap LockedByOther(p) # {}
    \/ pc[p] = "inserted" /\ UpsertBlocked(p, key[p])

\* an open transaction of invocation q has written to the store
HasWritten(q) == txDel[q] # {} \/ txIns[q] # {} \/ txUps[q].present

C12_Frame ==
    \A k \in Keys :
        (Rows(k)' # Rows(k) \/ Document(k)' # Document(k)) =>
            \E p \in Invocations : Commits(p) /\ key[p] = k

C12_NoWaiting ==
    \A p \in Invocations :
        /\ Waiting(p) =>
               \E q \in Invocations \ {p} :
                   pc[q] \in Active /\ key[q] = key[p] /\ HasWritten(q)
        /\ (pc[p] = "embedding" /\ pc'[p] = "deleting") =>
               \E q \in Invocations \ {p} :
                   pc[q] \in Active /\ key[q] = key[p] /\ HasWritten(q)

\* C12: the rows and the document row of a key change only in the commit of
\* an ingestion of that key, so an ingestion of another key, whatever its
\* outcome and content, leaves them as they are; and a statement of an
\* ingestion waits only for an open transaction of an ingestion of the same
\* key.
C12_CrossKeyIndependence == [][C12_Frame /\ C12_NoWaiting]_vars

\* C12 witness: ingestions of two keys have both run all their statements,
\* neither has committed; the one has deleted the stored rows of its key,
\* and the other ingests, under its own key, the content those rows were
\* made from
C12_Witness ==
    \E p, q \in Invocations :
        /\ key[p] = KeyTXT /\ key[q] = KeyTxt
        /\ pc[p] = "upserted" /\ pc[q] = "upserted"
        /\ txDel[q] # {}
        /\ txIns[p] # {}
        /\ file_hash[p] = Document(KeyTxt).file_hash

IsPrefix(s, t) == Len(s) <= Len(t) /\ s = SubSeq(t, 1, Len(s))

\* the calls of an ingestion of n chunks that is not short-circuited
PipelineCalls(n) ==
    <<"s3.get_object", "s3.get_object", "connect", "select",
      "s3.get_object", "extract_text", "chunk_text">>
        \o [i \in 1..n |-> "embed"]
        \o <<"delete", "insert", "upsert", "commit", "close">>

\* C13: the calls of an ingestion that is not short-circuited are, in this
\* order, the hash lookup, the extraction, the chunking, one embedding call
\* per chunk and then the store writes; the i-th embedding call is for chunk
\* i, and the row inserted with chunk_index i has the text of the i-th chunk
\* and the embedding returned for that text.
C13_EmbeddingOrder ==
    \A p \in Invocations :
        /\ pc[p] \notin {"idle", "skipped"} =>
               IsPrefix(ops[p], PipelineCalls(Len(chunks[p])))
        /\ pc[p] = "done" => ops[p] = PipelineCalls(Len(chunks[p]))
        /\ Len(embeddings_data[p]) = Count(ops[p], "embed")
               - (IF pc[p] = "failed" /\ result[p].error = "embed" THEN 1 ELSE 0)
        /\ \A i \in DOMAIN embeddings_data[p] :
               /\ embeddings_data[p][i].chunk_index = i - 1
               /\ embeddings_data[p][i].chunk_text = chunks[p][i]
               /\ embeddings_data[p][i].embedding = get_embedding(chunks[p][i])
        /\ pc[p] \in {"inserted", "upserted"} =>
               /\ Cardinality(txIns[p]) = Len(chunks[p])
               /\ \A i \in DOMAIN chunks[p] :
                      \E r \in txIns[p] :
                          /\ r.chunk_index = i - 1
                          /\ r.chunk_text = chunks[p][i]
                          /\ r.embedding = get_embedding(chunks[p][i])
                          /\ r.filename = key[p]

\* C13 witness: an ingestion of two chunks with different embeddings has
\* inserted its rows
C13_Witness ==
    \E p \in Invocations :
        /\ pc[p] = "upserted"
        /\ Len(chunks[p]) = 2
        /\ chunks[p][1] # chunks[p][2]
        /\ get_embedding(chunks[p][1]) # get_embedding(chunks[p][2])
        /\ Cardinality(txIns[p]) = 2

\* what an invocation that has ended has returned or raised
C16_Outcome ==
    \A p \in Invocations :
        /\ pc[p] = "skipped" =>
               /\ result[p].kind = "return" /\ result[p].statusCode = 200
               /\ ~Made(p, "delete") /\ ~Made(p, "insert")
               /\ ~Made(p, "upsert") /\ ~Made(p, "commit")
        /\ pc[p] = "done" =>
               /\ result[p].kind = "return" /\ result[p].statusCode = 200
               /\ Made(p, "commit")
        /\ pc[p] = "failed" => result[p].kind = "raise"
        /\ pc[p] \in Terminal => ~HasWritten(p) /\ txSnap[p] = {}

\* an invocation that has ended keeps its outcome; it changes the store only
\* when it ends with a commit, which writes its document row and its rows
C16_OutcomeStep ==
    \A p \in Invocations :
        /\ (pc[p] \in Terminal /\ inv'[p] = inv[p]) =>
               pc'[p] = pc[p] /\ result'[p] = result[p]
        /\ (pc[p] \in Active /\ pc'[p] \in {"skipped", "failed"}) =>
               embeddings' = embeddings /\ processed_files' = processed_files
        /\ (pc[p] \in Active /\ pc'[p] = "done") =>
               /\ Document(key[p])' = UpsertRow(p)
               /\ InsertedRows(p) \subseteq Rows(key[p])'

\* C16: every invocation that has started ends, whatever other invocations
\* of the same or of other keys do meanwhile, in exactly one of three ways
\* and stays there: short-circuited (returns 200, has written nothing),
\* persisted (returns 200, its version committed) or failed (raises, nothing
\* of it committed).
C16_Termination ==
    /\ []C16_Outcome
    /\ [][C16_OutcomeStep]_vars
    /\ \A p \in Invocations : (pc[p] \in Active) ~> (pc[p] \in Terminal)

\* C16 witness: two invocations of a key with stored rows have overlapped,
\* so that the DELETE of one has waited for the other, and both have ended
\* with a commit
C16_Witness ==
    \E p, q \in Invocations :
        /\ p # q
        /\ pc[p] = "done" /\ pc[q] = "done"
        /\ key[p] = KeyTxt /\ key[q] = KeyTxt
        /\ \E r \in Rows(KeyTxt) : r.inv = inv[p]
        /\ \E r \in Rows(KeyTxt) : r.inv = inv[q]

\* C18: what an ingestion commits is the version of one content: the hash
\* it stores for its key is the digest of the bytes from which the chunks it
\* stores were extracted.
C18_HashMatchesContent ==
    [][\A p \in Invocations :
         Commits(p) =>
             \E c \in Contents :
                 /\ txUps[p] = VersionFile(key[p], c)
                 /\ txIns[p] = VersionRows(key[p], c, inv[p])]_vars

\* C19: in every committed state of the store, a key with a document row
\* has as many chunk rows as the row's chunk_count, all of them carrying the
\* row's file_hash, and a key without a document row has no chunk rows.
C19_MetadataAgrees ==
    \A k \in Keys :
        IF Document(k).present
            THEN /\ Cardinality(Rows(k)) = Document(k).chunk_count
                 /\ \A r \in Rows(k) : r.file_hash = Document(k).file_hash
            ELSE Rows(k) = {}

(***************************************************************************)
(* The query handler, query.lambda_handler.  JSON values are tagged:       *)
(* None, a string, an integer, or an object with the two fields the        *)
(* handler reads, either of which may be missing.                          *)
(***************************************************************************)
DefaultTopK == 5

Missing == [t |-> "missing"]
JStr(x) == [t |-> "str", v |-> x]
JInt(n) == [t |-> "int", v |-> n]
JObject(q, k) == [t |-> "object", question |-> q, top_k |-> k]
JList == [t |-> "list"]

Questions == {JStr(<<"a", "?">>), JStr(<<"b">>)}
QuestionValues == {Missing, None, JStr(<<>>)} \cup Questions
TopKValues == {Missing, None, JInt(-1), JInt(0), JInt(1), JInt(2), JInt(7)}
Objects == {JObject(q, k) : q \in QuestionValues, k \in TopKValues}

\* json.dumps / json.loads: a JSON text carries the value it encodes; a text
\* that is no JSON does not parse
InvalidJson == [t |-> "text", valid |-> FALSE]
dumps(x) == [t |-> "text", valid |-> TRUE, value |-> x]
loads(text) ==
    IF text.valid THEN [ok |-> TRUE, value |-> text.value]
    ELSE [ok |-> FALSE, error |-> "JSONDecodeError"]

\* the requests: an event that is the body itself, an event whose 'body' is a
\* JSON text (API Gateway), and an event whose 'body' is already a value
Events ==
    {[form |-> "direct", body |-> o] : o \in Objects}
        \cup {[form |-> "text", body |-> dumps(o)] : o \in Objects \cup {None, JList}}
        \cup {[form |-> "text", body |-> InvalidJson]}
        \cup {[form |-> "value", body |-> o] : o \in Objects \cup {None}}

\* lines 127-130
ParseBody(e) ==
    IF e.form = "text" THEN loads(e.body) ELSE [ok |-> TRUE, value |-> e.body]

\* dict.get(name) and dict.get(name, default); on a value that is no dict the
\* attribute lookup raises
GetQuestion(body) == IF body.question = Missing THEN None ELSE body.question
GetTopK(body) == IF body.top_k = Missing THEN JInt(DefaultTopK) ELSE body.top_k

\* variant: only a missing or null question is rejected
IsNone(x) == x = None

\* not question
Falsy(x) == x = None \/ x = JStr(<<>>)

\* embedding_str = '[' + ','.join(map(str, query_embedding)) + ']', and the
\* server's cast of the literal to vector
FormatVector(v) == <<"[", v[1], ",", v[2], "]">>
ParseVector(lit) == <<lit[2], lit[4]>>

\* embedding <=> q: the cosine distance, which for the model's unit vectors
\* is 1 minus the dot product
CosineDistance(u, v) == 1 - (u[1] * v[1] + u[2] * v[2])

\* the selected columns of one row
SelectColumns(r, q) ==
    [chunk_text |-> r.chunk_text, filename |-> r.filename,
     chunk_index |-> r.chunk_index,
     similarity |-> 1 - CosineDistance(r.embedding, q)]

\* variant: ORDER BY .. DESC
RECURSIVE FarthestFirst(_, _)
FarthestFirst(rows, q) ==
    IF rows = {} THEN {<<>>}
    ELSE UNION {{<<r>> \o rest : rest \in FarthestFirst(rows \ {r}, q)} :
                r \in {x \in rows : \A y \in rows :
                           CosineDistance(x.embedding, q) >= CosineDistance(y.embedding, q)}}

\* ORDER BY embedding <=> q: the orders the sort can produce, rows at equal
\* distance in any order
RECURSIVE NearestFirst(_, _)
NearestFirst(rows, q) ==
    IF rows = {} THEN {<<>>}
    ELSE UNION {{<<r>> \o rest : rest \in NearestFirst(rows \ {r}, q)} :
                r \in {x \in rows : \A y \in rows :
                           CosineDistance(x.embedding, q) <= CosineDistance(y.embedding, q)}}

\* LIMIT %s: NULL is no limit; a negative limit is an error of the statement
Limit(rows, k) ==
    IF k = None THEN rows
    ELSE SubSeq(rows, 1, IF k.v < Len(rows) THEN k.v ELSE Len(rows))

\* similarity_search: the results the statement can return
similarity_search(embedding, k) ==
    LET q == ParseVector(FormatVector(embedding)) IN
    {Limit([i \in DOMAIN sorted |-> SelectColumns(sorted[i], q)], k) :
        sorted \in NearestFirst(embeddings, q)}

SearchFails(k) == k # None /\ k.v < 0

\* variant: the context lists the chunks last to first
ReversedPrompt(q, cs) ==
    [context |-> [i \in DOMAIN cs |->
                     [filename |-> cs[Len(cs) + 1 - i].filename,
                      chunk_index |-> cs[Len(cs) + 1 - i].chunk_index,
                      chunk_text |-> cs[Len(cs) + 1 - i].chunk_text]],
     question |-> q]

\* query_claude: the context lists the chunks in the order given, each under
\* its file name and chunk index
BuildPrompt(q, cs) ==
    [context |-> [i \in DOMAIN cs |->
                     [filename |-> cs[i].filename, chunk_index |-> cs[i].chunk_index,
                      chunk_text |-> cs[i].chunk_text]],
     question |-> q]

\* the generative model is a black box prompt -> text
Answer(pr) == [t |-> "answer", question |-> pr.question, chunks |-> Len(pr.context)]

Sources(cs) ==
    [i \in DOMAIN cs |->
        [filename |-> cs[i].filename, chunk_index |-> cs[i].chunk_index,
         similarity |-> cs[i].similarity]]

ErrorResponse(code, message) ==
    [statusCode |-> code, body |-> dumps([error |-> message])]

QReturn(r) ==
    /\ response' = r
    /\ qpc' = "returned"

\* variant: the failure is swallowed and an empty answer returned
SilentEmptyAnswer(step, message) ==
    /\ exception' = [t |-> "exception", step |-> step, message |-> message]
    /\ QReturn([statusCode |-> 200,
                body |-> dumps([question |-> question, answer |-> <<>>,
                                sources |-> <<>>])])

\* lines 180-185: an exception raised in the step is caught, and the handler
\* returns status 500 with str(e) as the error
Caught(step, message) ==
    /\ exception' = [t |-> "exception", step |-> step, message |-> message]
    /\ QReturn(ErrorResponse(500, message))

\* a request arrives
Request(e) ==
    /\ qpc = "idle"
    /\ event' = e
    /\ qpc' = "received"
    /\ UNCHANGED <<question, top_k, query_embedding, context_chunks, prompt, qops,
                   exception, response>>
    /\ UNCHANGED ivars

\* lines 126-139: the body is parsed, the two fields are read, and a request
\* without a question is answered 400; an exception is answered 500
Parse ==
    /\ qpc = "received"
    /\ LET parsed == ParseBody(event) IN
       IF ~parsed.ok
           THEN /\ Caught("parse", parsed.error)
                /\ UNCHANGED <<question, top_k>>
       ELSE IF parsed.value.t # "object"
           THEN /\ Caught("parse", "AttributeError")
                /\ UNCHANGED <<question, top_k>>
       ELSE /\ question' = GetQuestion(parsed.value)
            /\ top_k' = GetTopK(parsed.value)
            /\ UNCHANGED exception
            /\ IF Falsy(GetQuestion(parsed.value))
                   THEN QReturn(ErrorResponse(400, "Missing required field: question"))
                   ELSE qpc' = "parsed" /\ UNCHANGED response
    /\ UNCHANGED <<event, query_embedding, context_chunks, prompt, qops>>
    /\ UNCHANGED ivars

\* line 145
EmbedQuestion ==
    /\ qpc = "parsed"
    /\ query_embedding' = get_embedding(question.v)
    /\ qops' = Append(qops, "embed")
    /\ qpc' = "embedded"
    /\ UNCHANGED <<event, question, top_k, context_chunks, prompt, exception, response>>
    /\ UNCHANGED ivars

\* line 149: similarity_search, which reads the committed rows
Search ==
    /\ qpc = "embedded"
    /\ qops' = qops \o <<"connect", "search">>
    /\ IF SearchFails(top_k)
           THEN /\ Caught("search", "LIMIT must not be negative")
                /\ UNCHANGED context_chunks
           ELSE /\ \E rows \in similarity_search(query_embedding, top_k) :
                       context_chunks' = rows
                /\ qpc' = "searched"
                /\ UNCHANGED <<exception, response>>
    /\ UNCHANGED <<event, question, top_k, query_embedding, prompt>>
    /\ UNCHANGED ivars

\* lines 157-178
Generate ==
    /\ qpc = "searched"
    /\ prompt' = BuildPrompt(question, context_chunks)
    /\ qops' = Append(qops, "generate")
    /\ QReturn([statusCode |-> 200,
                body |-> dumps([question |-> question,
                                answer |-> Answer(BuildPrompt(question, context_chunks)),
                                sources |-> Sources(context_chunks)])])
    /\ UNCHANGED <<event, question, top_k, query_embedding, context_chunks, exception>>
    /\ UNCHANGED ivars

QNextCall ==
    CASE qpc = "parsed" -> "embed"
      [] qpc = "embedded" -> "search"
      [] qpc = "searched" -> "generate"
      [] OTHER -> "none"

\* lines 180-185: the call that is next raises and the handler answers 500
QueryFail ==
    /\ qpc \in {"parsed", "embedded", "searched"}
    /\ qops' = Append(qops, QNextCall)
    /\ Caught(QNextCall, QNextCall)
    /\ UNCHANGED <<event, question, top_k, query_embedding, context_chunks, prompt>>
    /\ UNCHANGED ivars

\* the stores the queries run against: for each supported key the versions
\* whose rows the table holds, the last of them the one of the document row
VersionLists == {<<>>, <<BytesA>>, <<BytesB>>, <<BytesA, BytesB>>}

StoreRows(k, versions) ==
    UNION {VersionRows(k, versions[n], n) : n \in DOMAIN versions}

StoreFile(k, versions) ==
    IF versions = <<>> THEN NoRow ELSE VersionFile(k, versions[Len(versions)])

QueryInit ==
    /\ s3 = [k \in Keys |-> BytesA]
    /\ puts = 0
    /\ invoked = 0
    /\ inv = [p \in Invocations |-> 0]
    /\ \E v1 \in VersionLists, v2 \in VersionLists :
           /\ embeddings = StoreRows(KeyTxt, v1) \cup StoreRows(KeyTXT, v2)
           /\ processed_files =
                  [k \in Keys |-> IF k = KeyTxt THEN StoreFile(k, v1)
                                  ELSE IF k = KeyTXT THEN StoreFile(k, v2)
                                  ELSE NoRow]
    /\ pc = [p \in Invocations |-> "idle"]
    /\ key = [p \in Invocations |-> <<>>]
    /\ file_hash = [p \in Invocations |-> -1]
    /\ chunks = [p \in Invocations |-> <<>>]
    /\ embeddings_data = [p \in Invocations |-> <<>>]
    /\ txSnap = [p \in Invocations |-> {}]
    /\ txDel = [p \in Invocations |-> {}]
    /\ txIns = [p \in Invocations |-> {}]
    /\ txUps = [p \in Invocations |-> NoRow]
    /\ ops = [p \in Invocations |-> <<>>]
    /\ result = [p \in Invocations |-> NoResult]
    /\ QueryIdle

QueryNext ==
    \/ \E e \in Events : Request(e)
    \/ Parse
    \/ EmbedQuestion
    \/ Search
    \/ Generate
    \/ QueryFail

QuerySpec == QueryInit /\ [][QueryNext]_vars

(***************************************************************************)
(* Properties of the query handler.                                        *)
(***************************************************************************)
Min(a, b) == IF a < b THEN a ELSE b

\* the request's body is an object, and the value it gives for a field
BodyIsObject == ParseBody(event).ok /\ ParseBody(event).value.t = "object"
Supplied == ParseBody(event).value

Called(call) == call \in Range(qops)

\* C8: a request whose body is an object with the question missing, null or
\* empty is answered with status 400 and an error payload, and no embedding,
\* search or generation call is made for it.
C8_MissingQuestionRejected ==
    (/\ qpc \notin {"idle", "received"}
     /\ BodyIsObject
     /\ Supplied.question \in {Missing, None, JStr(<<>>)})
    => /\ qpc = "returned"
       /\ response.statusCode = 400
       /\ response.body = dumps([error |-> "Missing required field: question"])
       /\ qops = <<>>

\* C8 witness: a request without the question field has been answered 400
C8_Witness ==
    /\ qpc = "returned"
    /\ BodyIsObject
    /\ Supplied.question = Missing
    /\ response.statusCode = 400

\* C9: the k given to the search is 5 when top_k is missing from the request
\* and when the supplied top_k is 0 or less, and the supplied value otherwise.
C9_TopKDefaulting ==
    Called("search") =>
        top_k = IF Supplied.top_k = Missing
                   \/ (Supplied.top_k.t = "int" /\ Supplied.top_k.v <= 0)
                    THEN JInt(DefaultTopK)
                    ELSE Supplied.top_k

\* the search has returned its rows
SearchReturned == qpc = "searched" \/ (qpc = "returned" /\ Called("generate"))

\* a stored row is the one a result row reports
Reports(c, r) ==
    /\ c.chunk_text = r.chunk_text
    /\ c.filename = r.filename
    /\ c.chunk_index = r.chunk_index
    /\ c.similarity = 1 - CosineDistance(r.embedding, query_embedding)

\* C10: the rows the search returns are min(top_k, stored rows) many, in
\* order of non-decreasing distance; each is a stored row, no stored row is
\* returned more often than it is stored, its similarity is 1 minus its
\* distance; and no stored row left out is strictly nearer than a row
\* returned.
C10_RetrievalRanking ==
    SearchReturned =>
        /\ top_k # None =>
               Len(context_chunks) = Min(top_k.v, Cardinality(embeddings))
        /\ \A i, j \in DOMAIN context_chunks :
               i < j => 1 - context_chunks[i].similarity <= 1 - context_chunks[j].similarity
        /\ \A i \in DOMAIN context_chunks :
               LET same == {r \in embeddings : Reports(context_chunks[i], r)} IN
               /\ same # {}
               /\ Count(context_chunks, context_chunks[i]) <= Cardinality(same)
        /\ \A r \in embeddings :
               LET c == [chunk_text |-> r.chunk_text, filename |-> r.filename,
                         chunk_index |-> r.chunk_index,
                         similarity |-> 1 - CosineDistance(r.embedding, query_embedding)]
               IN Count(context_chunks, c)
                      < Cardinality({x \in embeddings : Reports(c, x)})
                  => \A i \in DOMAIN context_chunks :
                         CosineDistance(r.embedding, query_embedding)
                             >= 1 - context_chunks[i].similarity

\* C10 witness: a search limited to fewer rows than are stored has returned
\* rows of different distances
C10_Witness ==
    /\ SearchReturned
    /\ top_k # None
    /\ Len(context_chunks) = top_k.v
    /\ Len(context_chunks) >= 2
    /\ Len(context_chunks) < Cardinality(embeddings)
    /\ context_chunks[1].similarity > context_chunks[2].similarity

\* the calls of the steps that come after a step of the pipeline
LaterCalls(step) ==
    CASE step = "parse" -> {"embed", "connect", "search", "generate"}
      [] step = "embed" -> {"connect", "search", "generate"}
      [] step = "search" -> {"generate"}
      [] OTHER -> {}

\* C11: a request in which the parsing, the embedding call, the search or the
\* generation call has failed is answered with status 500 and a body whose
\* error is the message of the failure; no call of a later step has been
\* made; and a response with status 200 is given only to a request in which
\* nothing failed and carries the answer of the generation call.
C11_QueryFailuresStructured ==
    /\ exception # NoException =>
           /\ qpc = "returned"
           /\ response.statusCode = 500
           /\ response.body = dumps([error |-> exception.message])
           /\ exception.message # ""
           /\ Range(qops) \cap LaterCalls(exception.step) = {}
    /\ (qpc = "returned" /\ response.statusCode = 200) =>
           /\ exception = NoException
           /\ Called("generate")
           /\ response.body.value.answer = Answer(prompt)

\* C11 witness: the search has failed after the embedding call was made, and
\* the request has been answered
C11_Witness ==
    /\ qpc = "returned"
    /\ exception # NoException
    /\ exception.step = "search"
    /\ Called("embed")
    /\ ~Called("generate")
    /\ response.statusCode = 500

\* C14: in a request answered 200 the context of the prompt and the sources
\* of the response have one entry per row the search returned, in the order
\* the search returned them: entry i of the context carries the file name,
\* chunk index and text of row i, entry i of the sources its file name,
\* chunk index and similarity; that order is most similar first.
C14_ContextKeepsOrder ==
    (qpc = "returned" /\ response.statusCode = 200) =>
        LET sources == response.body.value.sources IN
        /\ Len(prompt.context) = Len(context_chunks)
        /\ Len(sources) = Len(context_chunks)
        /\ prompt.question = question
        /\ \A i \in DOMAIN context_chunks :
               /\ prompt.context[i].filename = context_chunks[i].filename
               /\ prompt.context[i].chunk_index = context_chunks[i].chunk_index
               /\ prompt.context[i].chunk_text = context_chunks[i].chunk_text
               /\ sources[i].filename = context_chunks[i].filename
               /\ sources[i].chunk_index = context_chunks[i].chunk_index
               /\ sources[i].similarity = context_chunks[i].similarity
        /\ \A i, j \in DOMAIN sources :
               i < j => sources[i].similarity >= sources[j].similarity

\* C14 witness: a request answered 200 from three rows, not all of one
\* similarity and two of them of one document
C14_Witness ==
    /\ qpc = "returned"
    /\ response.statusCode = 200
    /\ Len(context_chunks) >= 3
    /\ context_chunks[1].similarity > context_chunks[3].similarity
    /\ \E i, j \in DOMAIN context_chunks :
           i # j /\ context_chunks[i].filename = context_chunks[j].filename

(***************************************************************************)
(* chunk_text on short texts: the handler run on objects of every content  *)
(* of at most MaxTextLen bytes, against an empty store.                    *)
(***************************************************************************)
TextBytes == {97, 32, 10, 46}
Texts == UNION {[1..n -> TextBytes] : n \in 0..MaxTextLen}

ChunkInit ==
    /\ \E b \in Texts : s3 = [k \in Keys |-> b]
    /\ puts = 0
    /\ invoked = 0
    /\ inv = [p \in Invocations |-> 0]
    /\ embeddings = {}
    /\ processed_files = [k \in Keys |-> NoRow]
    /\ pc = [p \in Invocations |-> "idle"]
    /\ key = [p \in Invocations |-> <<>>]
    /\ file_hash = [p \in Invocations |-> -1]
    /\ chunks = [p \in Invocations |-> <<>>]
    /\ embeddings_data = [p \in Invocations |-> <<>>]
    /\ txSnap = [p \in Invocations |-> {}]
    /\ txDel = [p \in Invocations |-> {}]
    /\ txIns = [p \in Invocations |-> {}]
    /\ txUps = [p \in Invocations |-> NoRow]
    /\ ops = [p \in Invocations |-> <<>>]
    /\ result = [p \in Invocations |-> NoResult]
    /\ QueryIdle

ChunkNext ==
    \/ \E k \in Keys : Invoke(1, k)
    \/ Fetch(1)
    \/ Connect(1)
    \/ Lookup(1)
    \/ Extract(1)
    \/ Embed(1)

ChunkSpec == ChunkInit /\ [][ChunkNext]_vars

\* the text the handler has given to chunk_text
ChunkedText(p) == extract_text(s3[key[p]], key[p]).text

\* C15: chunk_text of the empty text is the empty sequence, and chunk_text
\* of a non-empty text shorter than the chunk size is one chunk, the text
\* itself.
C15_ChunkerDegenerate ==
    \A p \in Invocations :
        pc[p] = "embedding" =>
            /\ ChunkedText(p) = <<>> => chunks[p] = <<>>
            /\ (ChunkedText(p) # <<>> /\ Len(ChunkedText(p)) < ModelChunkSize) =>
                   chunks[p] = <<ChunkedText(p)>>

\* C15 as amended: chunk_text of the empty text is the empty sequence, and
\* chunk_text of a text shorter than the chunk size is the text with leading
\* and trailing whitespace removed, as one chunk, or no chunk when nothing
\* is left; so it is the text itself when the text is not empty and neither
\* starts nor ends with whitespace.
C15_ChunkerDegenerateStripped ==
    \A p \in Invocations :
        pc[p] = "embedding" =>
            /\ ChunkedText(p) = <<>> => chunks[p] = <<>>
            /\ Len(ChunkedText(p)) < ModelChunkSize =>
                   /\ Strip(ChunkedText(p)) = <<>> => chunks[p] = <<>>
                   /\ Strip(ChunkedText(p)) # <<>> => chunks[p] = <<Strip(ChunkedText(p))>>
                   /\ (/\ ChunkedText(p) # <<>>
                       /\ ~IsSpace(ChunkedText(p)[1])
                       /\ ~IsSpace(ChunkedText(p)[Len(ChunkedText(p))]))
                      => chunks[p] = <<ChunkedText(p)>>

\* C15 witness: a text shorter than the chunk size that starts with
\* whitespace has been chunked into one chunk
C15_Witness ==
    \E p \in Invocations :
        /\ pc[p] = "embedding"
        /\ ChunkedText(p) # <<>>
        /\ Len(ChunkedText(p)) < ModelChunkSize
        /\ IsSpace(ChunkedText(p)[1])
        /\ Len(chunks[p]) = 1
        /\ chunks[p][1] # ChunkedText(p)

(***************************************************************************)
(* Ingestions of one key run one after the other: a single execution       *)
(* environment, uploads only between invocations, and at the start the     *)
(* store as the ingestions of a history of contents of KeyTxt leave it.    *)
(***************************************************************************)
Histories == {<<>>, <<BytesA>>, <<BytesA, BytesB>>}

SeqInit ==
    /\ \E h \in Histories :
           /\ s3 = [k \in Keys |-> IF k = KeyTxt /\ h # <<>> THEN h[Len(h)] ELSE BytesA]
           /\ embeddings = IF h = <<>> THEN {} ELSE VersionRows(KeyTxt, h[Len(h)], 0)
           /\ processed_files =
                  [k \in Keys |-> IF k = KeyTxt /\ h # <<>>
                                      THEN VersionFile(k, h[Len(h)]) ELSE NoRow]
    /\ puts = 0
    /\ invoked = 0
    /\ inv = [p \in Invocations |-> 0]
    /\ pc = [p \in Invocations |-> "idle"]
    /\ key = [p \in Invocations |-> <<>>]
    /\ file_hash = [p \in Invocations |-> -1]
    /\ chunks = [p \in Invocations |-> <<>>]
    /\ embeddings_data = [p \in Invocations |-> <<>>]
    /\ txSnap = [p \in Invocations |-> {}]
    /\ txDel = [p \in Invocations |-> {}]
    /\ txIns = [p \in Invocations |-> {}]
    /\ txUps = [p \in Invocations |-> NoRow]
    /\ ops = [p \in Invocations |-> <<>>]
    /\ result = [p \in Invocations |-> NoResult]
    /\ QueryIdle

\* an upload while no invocation is running
UploadBetween(k, c) == pc[1] \notin Active /\ PutObject(k, c)

SeqNext ==
    \/ \E k \in Keys, c \in Contents : UploadBetween(k, c)
    \/ \E k \in Keys : Invoke(1, k)
    \/ Fetch(1)
    \/ Connect(1)
    \/ Lookup(1)
    \/ Extract(1)
    \/ Embed(1)
    \/ Delete(1)
    \/ Insert(1)
    \/ Upsert(1)
    \/ Commit(1)
    \/ Fail(1)

SeqSpec == SeqInit /\ [][SeqNext]_vars

\* the stored document row of the key has the hash of the key's object
StoredHashIsCurrent(k) == Document(k).present /\ Document(k).file_hash = md5(s3[k])

C17_LookupStep ==
    \A p \in Invocations :
        (pc[p] = "connected" /\ pc'[p] \notin {"connected", "failed"}) =>
            (pc'[p] = "skipped" <=> StoredHashIsCurrent(key[p]))

C17_CommitStep ==
    \A p \in Invocations :
        Commits(p) =>
            /\ Rows(key[p])' = VersionRows(key[p], s3[key[p]], inv[p])
            /\ Document(key[p])' = VersionFile(key[p], s3[key[p]])

\* C17: of ingestions run one after the other, one short-circuits exactly
\* when the key has a document row whose hash is the hash of the object as
\* it is now, whatever was stored for the key earlier; an ingestion that
\* does not short-circuit and commits leaves exactly the chunks and the hash
\* of the object as it is now.
C17_ShortCircuitCondition == [][C17_LookupStep /\ C17_CommitStep]_vars

\* C17 witness: KeyTxt was ingested with BytesA and then with BytesB, the
\* object is BytesA again, and an ingestion of it has not short-circuited
\* and has committed the version of BytesA
C17_Witness ==
    /\ pc[1] = "done"
    /\ key[1] = KeyTxt
    /\ puts = 1
    /\ s3 = [k \in Keys |-> BytesA]
    /\ Rows(KeyTxt) = VersionRows(KeyTxt, BytesA, inv[1])
    /\ Document(KeyTxt) = VersionFile(KeyTxt, BytesA)

====
